---- MODULE Spec2Model ----
(***************************************************************************)
(* A model of src/dereferencer.ts: dereferenceApi, flattenAllOf,           *)
(* selectFirstOfOneOf, selectFirstOfAnyOf and the private resolveRef.      *)
(*                                                                         *)
(* JavaScript objects have identity and the functions assign into them in  *)
(* place, so the model runs every call on an explicit heap: a sequence of  *)
(* cells addressed by their index, 0 standing for `undefined`.  Between    *)
(* calls the caller's document and the last outcome are kept as trees (the *)
(* heap read back from an address), which is what deep equality observes.  *)
(*                                                                         *)
(* A tree node / a heap cell is one of                                     *)
(*   [map |-> f]  an object; f maps its keys to trees / to addresses       *)
(*   [arr |-> s]  an array;  s is a sequence of trees / of addresses       *)
(*   [str |-> s]  a string;  s is its sequence of lexemes: "#", "/" or a   *)
(*                maximal run of other characters                          *)
(*   [lit |-> l]  null, a boolean, a number or undefined, named by l       *)
(***************************************************************************)
EXTENDS Integers, Sequences, FiniteSets, TLC

VARIABLES doc, pre, orig, op, result

vars == <<doc, pre, orig, op, result>>

(***************************************************************************)
(* Bounds of the model.                                                    *)
(***************************************************************************)
\* Depth of nested calls the engine's stack holds before a RangeError.
MaxStack == 8

(***************************************************************************)
(* Values.                                                                 *)
(***************************************************************************)
Undefined == [lit |-> "undefined"]
Null == [lit |-> "null"]

IsMap(n) == "map" \in DOMAIN n
IsArr(n) == "arr" \in DOMAIN n
IsStr(n) == "str" \in DOMAIN n
IsLit(n) == "lit" \in DOMAIN n

\* typeof n === "object" && n !== null
IsObject(n) == IsMap(n) \/ IsArr(n)

\* !n
Falsy(n) ==
    \/ IsLit(n) /\ n.lit \in {"undefined", "null", "false", "0"}
    \/ IsStr(n) /\ n.str = <<>>

\* Enumeration order of `for (const key in ...)`: the insertion order of the
\* documents of the model, which all insert their keys in this order.
KeyOrder ==
    <<"$ref", "allOf", "oneOf", "anyOf", "properties",
      "A", "B", "C", "t", "u", "x", "y">>

\* Array indices as property names.
IndexKeys == <<"0", "1", "2", "3">>

IndexOf(k) == CHOOSE i \in 1..Len(IndexKeys) : IndexKeys[i] = k

IsIndex(k) == \E i \in 1..Len(IndexKeys) : IndexKeys[i] = k

\* The keys `for ... in` visits on a cell or tree node, in order.  A string
\* enumerates one index per character; a lexeme stands for at least one.
OwnKeys(n) ==
    IF IsMap(n) THEN SelectSeq(KeyOrder, LAMBDA k : k \in DOMAIN n.map)
    ELSE IF IsArr(n) THEN SubSeq(IndexKeys, 1, Len(n.arr))
    ELSE IF IsStr(n) THEN SubSeq(IndexKeys, 1, Len(n.str))
    ELSE <<>>

(***************************************************************************)
(* The heap.                                                               *)
(***************************************************************************)
Cell(h, id) == IF id = 0 THEN Undefined ELSE h[id]

\* obj[key] as an address; 0 when the property is absent.
Child(h, id, key) ==
    LET c == Cell(h, id) IN
    IF IsMap(c) /\ key \in DOMAIN c.map THEN c.map[key]
    ELSE IF IsArr(c) /\ IsIndex(key) /\ IndexOf(key) <= Len(c.arr)
         THEN c.arr[IndexOf(key)]
    ELSE 0

\* obj[key] = value, on an object or an array.
SetChild(h, id, key, v) ==
    LET c == h[id] IN
    IF IsMap(c)
    THEN [h EXCEPT ![id] =
            [map |-> [k \in DOMAIN c.map \cup {key} |->
                        IF k = key THEN v ELSE c.map[k]]]]
    ELSE IF IsArr(c) /\ IsIndex(key) /\ IndexOf(key) <= Len(c.arr)
    THEN [h EXCEPT ![id] = [arr |-> [c.arr EXCEPT ![IndexOf(key)] = v]]]
    ELSE h

\* A new object.
Alloc(h, c) == [h |-> Append(h, c), id |-> Len(h) + 1]

\* The tree a caller sees from an address.
RECURSIVE Materialize(_, _)
Materialize(h, id) ==
    LET c == Cell(h, id) IN
    IF IsMap(c) THEN [map |-> [k \in DOMAIN c.map |-> Materialize(h, c.map[k])]]
    ELSE IF IsArr(c)
    THEN [arr |-> [i \in 1..Len(c.arr) |-> Materialize(h, c.arr[i])]]
    ELSE c

\* Fresh objects for a tree (what a parser builds): the children first, in
\* key order, then the node that holds their addresses.
RECURSIVE Load(_, _)
RECURSIVE LoadKids(_, _, _)
Load(h, t) ==
    IF IsObject(t) THEN LoadKids([h |-> h, ids |-> <<>>], t, OwnKeys(t))
    ELSE IF t = Undefined THEN [h |-> h, id |-> 0]
    ELSE Alloc(h, t)

KidsNode(t, keys, ids) ==
    IF IsArr(t) THEN [arr |-> ids]
    ELSE [map |-> [k \in DOMAIN t.map |->
                     ids[CHOOSE i \in 1..Len(keys) : keys[i] = k]]]

KidLoaded(acc, r) == [h |-> r.h, ids |-> Append(acc.ids, r.id)]

\* The child that follows the ones loaded so far.
NextKid(t, keys, ids) ==
    IF IsMap(t) THEN t.map[keys[Len(ids) + 1]] ELSE t.arr[Len(ids) + 1]

LoadKids(acc, t, keys) ==
    IF Len(acc.ids) = Len(keys) THEN Alloc(acc.h, KidsNode(t, keys, acc.ids))
    ELSE LoadKids(KidLoaded(acc, Load(acc.h, NextKid(t, keys, acc.ids))),
                  t, keys)

\* What JSON.stringify writes of a tree: a property holding undefined is
\* left out, an array element holding undefined is written null.
RECURSIVE Jsonify(_)
Jsonify(t) ==
    IF IsMap(t)
    THEN [map |-> [k \in {j \in DOMAIN t.map : t.map[j] # Undefined} |->
                     Jsonify(t.map[k])]]
    ELSE IF IsArr(t)
    THEN [arr |-> [i \in 1..Len(t.arr) |->
                     IF t.arr[i] = Undefined THEN Null ELSE Jsonify(t.arr[i])]]
    ELSE t

\* JSON.parse(JSON.stringify(x)): a deep copy made of new objects.
JsonClone(h, id) == Load(h, Jsonify(Materialize(h, id)))

(***************************************************************************)
(* Outcomes of a call.                                                     *)
(***************************************************************************)
NoError == [kind |-> "none", msg |-> <<>>]

\* new Error(`Could not resolve $ref path: ${obj.$ref}`)
ResolveError(ref) ==
    [kind |-> "Error", msg |-> <<"Could not resolve $ref path: ">> \o ref]

\* Maximum call stack size exceeded.
RangeError == [kind |-> "RangeError", msg |-> <<>>]

\* A property read of null, a call of something that is no function, an
\* assignment to a property of a primitive (modules are strict code).
TypeError == [kind |-> "TypeError", msg |-> <<>>]

Ret(h, id) == [h |-> h, id |-> id, err |-> NoError]

Throw(h, e) == [h |-> h, id |-> 0, err |-> e]

(***************************************************************************)
(* resolveRef                                                              *)
(***************************************************************************)
\* ref.replace(/^#\//, '')
StripFragment(s) ==
    IF Len(s) >= 2 /\ s[1] = "#" /\ s[2] = "/" THEN SubSeq(s, 3, Len(s)) ELSE s

\* The text of a run of lexemes as a property name.  A run of several
\* lexemes is a name no document of the model uses.
Join(seg) ==
    IF seg = <<>> THEN "" ELSE IF Len(seg) = 1 THEN seg[1] ELSE "#?"

\* s.split('/')
Split(s) ==
    LET slashes == {i \in 1..Len(s) : s[i] = "/"}
        n == Cardinality(slashes)
        cut(k) == IF k = 0 THEN 0
                  ELSE IF k = n + 1 THEN Len(s) + 1
                  ELSE CHOOSE i \in slashes :
                           Cardinality({j \in slashes : j < i}) = k - 1
    IN  [k \in 1..(n + 1) |-> Join(SubSeq(s, cut(k - 1) + 1, cut(k) - 1))]

\* obj.$ref.replace(/^#\//, '').split('/')
RefPath(ref) == Split(StripFragment(ref))

\* A walk that takes no step: every pointer names the document itself.
WalkNowhere(h, cur, parts, i) == cur

\* derefObj = derefObj[part] for each part; 0 when some step is falsy.
RECURSIVE Walk(_, _, _, _)
Walk(h, cur, parts, i) ==
    IF i > Len(parts) THEN cur
    ELSE LET nxt == Child(h, cur, parts[i])
         IN  IF Falsy(Cell(h, nxt)) THEN 0 ELSE Walk(h, nxt, parts, i + 1)

\* obj && obj.$ref
HasRef(h, id) ==
    /\ ~Falsy(Cell(h, id))
    /\ ~Falsy(Cell(h, Child(h, id, "$ref")))

\* A resolution that stops at the first target, a reference node or not.
resolveTargetOneHop(h, ref, derefObj, api, depth) ==
    IF derefObj = 0 THEN Throw(h, ResolveError(ref)) ELSE Ret(h, derefObj)

RECURSIVE resolveRef(_, _, _, _)
RECURSIVE resolveTarget(_, _, _, _, _)
RECURSIVE resolveRefKeys(_, _, _, _, _, _)
RECURSIVE resolveRefKey(_, _, _, _, _, _)
resolveRef(h, obj, api, depth) ==
    IF depth = 0 THEN Throw(h, RangeError)
    ELSE IF HasRef(h, obj)
    THEN IF ~IsStr(Cell(h, Child(h, obj, "$ref"))) THEN Throw(h, TypeError)
         ELSE resolveTarget(h, Cell(h, Child(h, obj, "$ref")).str,
                  Walk(h, api, RefPath(Cell(h, Child(h, obj, "$ref")).str), 1),
                  api, depth)
    ELSE IF IsObject(Cell(h, obj))
    THEN resolveRefKeys(h, obj, api, OwnKeys(Cell(h, obj)), 1, depth)
    ELSE Ret(h, obj)

\* throw new Error(...) when the walk met a falsy step, else
\* return await resolveRef(derefObj, api)
resolveTarget(h, ref, derefObj, api, depth) ==
    IF derefObj = 0 THEN Throw(h, ResolveError(ref))
    ELSE resolveRef(h, derefObj, api, depth - 1)

\* for (const key in obj) obj[key] = await resolveRef(obj[key], api)
resolveRefKeys(h, obj, api, keys, i, depth) ==
    IF i > Len(keys) THEN Ret(h, obj)
    ELSE resolveRefKey(resolveRef(h, Child(h, obj, keys[i]), api, depth - 1),
                       obj, api, keys, i, depth)

\* obj[key] = <the value r the recursive call returned>, then the next key
resolveRefKey(r, obj, api, keys, i, depth) ==
    IF r.err # NoError THEN r
    ELSE resolveRefKeys(SetChild(r.h, obj, keys[i], r.id),
                        obj, api, keys, i + 1, depth)

(***************************************************************************)
(* dereferenceApi                                                          *)
(***************************************************************************)
RECURSIVE processSchema(_, _, _, _)
RECURSIVE processSchemaBody(_, _, _)
RECURSIVE processSchemaKeys(_, _, _, _, _, _)
RECURSIVE processSchemaKey(_, _, _, _, _, _)
processSchema(h, schema, api, depth) ==
    IF depth = 0 THEN Throw(h, RangeError)
    ELSE IF Falsy(Cell(h, schema)) THEN Ret(h, schema)
    ELSE IF ~Falsy(Cell(h, Child(h, schema, "$ref")))
    THEN processSchemaBody(resolveRef(h, schema, api, depth - 1), api, depth)
    ELSE processSchemaBody(Ret(h, schema), api, depth)

\* The loop over the keys of schema, r.id, as it stands after resolveRef.
processSchemaBody(r, api, depth) ==
    IF r.err # NoError THEN r
    ELSE IF IsObject(Cell(r.h, r.id))
    THEN processSchemaKeys(r.h, r.id, api, OwnKeys(Cell(r.h, r.id)), 1, depth)
    ELSE r

\* for (const key in schema) schema[key] = await processSchema(schema[key])
processSchemaKeys(h, schema, api, keys, i, depth) ==
    IF i > Len(keys) THEN Ret(h, schema)
    ELSE processSchemaKey(processSchema(h, Child(h, schema, keys[i]), api,
                                        depth - 1),
                          schema, api, keys, i, depth)

\* schema[key] = <the value r the recursive call returned>, then the next key
processSchemaKey(r, schema, api, keys, i, depth) ==
    IF r.err # NoError THEN r
    ELSE processSchemaKeys(SetChild(r.h, schema, keys[i], r.id),
                           schema, api, keys, i + 1, depth)

\* A path expression is written as its lexemes: "$", ".", member names.
\* The library's path array: the member names, the leading "$" dropped when
\* anything follows it.
PathArray(expr) ==
    LET names == SelectSeq(expr, LAMBDA x : x # ".")
    IN  IF Len(names) > 1 /\ names[1] = "$" THEN Tail(names) ELSE names

\* val && hasOwnProperty(val, loc)
HasOwn(h, id, key) ==
    LET c == Cell(h, id) IN
    \/ IsMap(c) /\ key \in DOMAIN c.map
    \/ IsArr(c) /\ IsIndex(key) /\ IndexOf(key) <= Len(c.arr)

\* JSONPath({path, json, resultType: "value"}) for a path of member names:
\* the matched values, none when some member is absent.
RECURSIVE Trace(_, _, _, _)
Trace(h, val, locs, i) ==
    IF i > Len(locs) THEN <<val>>
    ELSE IF locs[i] = "$" THEN Trace(h, val, locs, i + 1)
    ELSE IF HasOwn(h, val, locs[i])
    THEN Trace(h, Child(h, val, locs[i]), locs, i + 1)
    ELSE <<>>

\* A selection that takes no account of the path: the whole document.
SelectWholeDocument(h, json, startAt) == <<json>>

Select(h, json, startAt) == Trace(h, json, PathArray(startAt), 1)

\* JSONPath({path, json, resultType: "value", callback: () => processedSection}):
\* the library calls the callback on every match and drops what it returns,
\* so the document is left as it is.
SpliceBack(h, json, startAt, processedSection) == h

Outcome(h, kind, id, err) == [h |-> h, kind |-> kind, id |-> id, err |-> err]

\* const processedSection = await processSchema(startSchema[0]);
\* JSONPath({..., callback: () => processedSection}); return dereferencedDoc
DereferenceEnd(processedSection, dereferencedDoc, startAt) ==
    IF processedSection.err # NoError
    THEN Outcome(processedSection.h, "thrown", 0, processedSection.err)
    ELSE Outcome(SpliceBack(processedSection.h, dereferencedDoc, startAt,
                            processedSection.id),
                 "returned", dereferencedDoc, NoError)

\* if (startSchema.length === 0) return undefined, else the first match
DereferenceFrom(h, dereferencedDoc, startSchema, apiDoc, startAt) ==
    IF Len(startSchema) = 0 THEN Outcome(h, "undefined", 0, NoError)
    ELSE DereferenceEnd(processSchema(h, startSchema[1], apiDoc, MaxStack),
                        dereferencedDoc, startAt)

\* const startSchema = JSONPath({path: startAt, json: dereferencedDoc, ...})
DereferenceClone(dereferencedDoc, apiDoc, startAt) ==
    DereferenceFrom(dereferencedDoc.h, dereferencedDoc.id,
                    Select(dereferencedDoc.h, dereferencedDoc.id, startAt),
                    apiDoc, startAt)

\* The third argument, ignorePaths, has no parameter to receive it.
dereferenceApi(h, apiDoc, startAt) ==
    DereferenceClone(JsonClone(h, apiDoc), apiDoc, startAt)

(***************************************************************************)
(* flattenAllOf                                                            *)
(***************************************************************************)
\* The own enumerable properties `...x` copies.  Documents of the model
\* spread objects, arrays, null and undefined only.
Spread(c) ==
    IF IsMap(c) THEN c.map
    ELSE IF IsArr(c) THEN [k \in {IndexKeys[i] : i \in 1..Len(c.arr)} |->
                             c.arr[IndexOf(k)]]
    ELSE <<>>

\* {...f, ...g}
Over(f, g) ==
    [k \in DOMAIN f \cup DOMAIN g |-> IF k \in DOMAIN g THEN g[k] ELSE f[k]]

\* p || {}, spread
OrEmpty(p) == IF Falsy(p) THEN <<>> ELSE Spread(p)

\* {...merged, ...subSchema, properties: props}, props a new object
MergedWith(props, merged, subSchema) ==
    Alloc(props.h, [map |-> Over(Over(Spread(merged), Spread(subSchema)),
                                 [k \in {"properties"} |-> props.id])])

\* One step of the reduce:
\* {...merged, ...subSchema,
\*  properties: {...(merged.properties || {}), ...(subSchema.properties || {})}}
\* Reading subSchema.properties of null throws.
MergeStep(h, merged, subSchema) ==
    IF Cell(h, subSchema) \in {Null, Undefined}
    THEN [h |-> h, id |-> 0]
    ELSE MergedWith(
             Alloc(h, [map |->
                 Over(OrEmpty(Cell(h, Child(h, merged, "properties"))),
                      OrEmpty(Cell(h, Child(h, subSchema, "properties"))))]),
             Cell(h, merged), Cell(h, subSchema))

\* schema.allOf.reduce(..., {}): acc is the accumulator's address, 0 once a
\* step has thrown.
RECURSIVE Reduce(_, _, _)
Reduce(acc, members, i) ==
    IF acc.id = 0 THEN Throw(acc.h, TypeError)
    ELSE IF i > Len(members) THEN Ret(acc.h, acc.id)
    ELSE Reduce(MergeStep(acc.h, acc.id, members[i]), members, i + 1)

\* delete r[key] on the object a step returned
Delete(r, key) ==
    IF r.err # NoError THEN r
    ELSE Ret([r.h EXCEPT ![r.id] =
                 [map |-> [k \in DOMAIN r.h[r.id].map \ {key} |->
                             r.h[r.id].map[k]]]],
             r.id)

\* schema.allOf && Array.isArray(schema.allOf)
IsTruthyArray(a) == ~Falsy(a) /\ IsArr(a)

\* schema = schema.allOf.reduce(..., {}); delete schema.allOf
MergeAllOf(h, members) ==
    Delete(Reduce(Alloc(h, [map |-> <<>>]), members, 1), "allOf")

RECURSIVE processAllOf(_, _)
RECURSIVE processAllOfKeys(_, _, _, _)
RECURSIVE processAllOfKey(_, _, _, _)
RECURSIVE processAllOfBody(_)
processAllOf(h, schema) ==
    IF Falsy(Cell(h, schema)) \/ ~IsObject(Cell(h, schema)) THEN Ret(h, schema)
    ELSE IF IsTruthyArray(Cell(h, Child(h, schema, "allOf")))
    THEN processAllOfBody(MergeAllOf(h, Cell(h, Child(h, schema, "allOf")).arr))
    ELSE processAllOfBody(Ret(h, schema))

\* The loop over the keys of schema, m.id, as it stands after the merge.
processAllOfBody(m) ==
    IF m.err # NoError THEN m
    ELSE processAllOfKeys(m.h, m.id, OwnKeys(m.h[m.id]), 1)

\* for (const key in schema) schema[key] = await processAllOf(schema[key])
processAllOfKeys(h, schema, keys, i) ==
    IF i > Len(keys) THEN Ret(h, schema)
    ELSE processAllOfKey(processAllOf(h, Child(h, schema, keys[i])),
                         schema, keys, i)

\* schema[key] = <the value r the recursive call returned>, then the next key
processAllOfKey(r, schema, keys, i) ==
    IF r.err # NoError THEN r
    ELSE processAllOfKeys(SetChild(r.h, schema, keys[i], r.id),
                          schema, keys, i + 1)

\* What a public operation hands back: flattenedDoc, whatever the walk
\* returned.
ReturnDoc(r, docId) ==
    IF r.err # NoError THEN Outcome(r.h, "thrown", 0, r.err)
    ELSE Outcome(r.h, "returned", docId, NoError)

\* await processAllOf(flattenedDoc); return flattenedDoc
FlattenClone(flattenedDoc) ==
    ReturnDoc(processAllOf(flattenedDoc.h, flattenedDoc.id), flattenedDoc.id)

flattenAllOf(h, apiDoc) == FlattenClone(JsonClone(h, apiDoc))

(***************************************************************************)
(* selectFirstOfOneOf, selectFirstOfAnyOf                                  *)
(***************************************************************************)
\* processOneOf and processAnyOf are the same text but for the keyword.
RECURSIVE processFirstOf(_, _, _)
RECURSIVE processFirstOfKeys(_, _, _, _, _)
RECURSIVE processFirstOfKey(_, _, _, _, _)
processFirstOf(h, schema, keyword) ==
    IF Falsy(Cell(h, schema)) \/ ~IsObject(Cell(h, schema)) THEN Ret(h, schema)
    ELSE IF IsTruthyArray(Cell(h, Child(h, schema, keyword)))
    THEN processFirstOfKeys(h, Child(h, Child(h, schema, keyword), "0"), keyword,
             OwnKeys(Cell(h, Child(h, Child(h, schema, keyword), "0"))), 1)
    ELSE processFirstOfKeys(h, schema, keyword, OwnKeys(Cell(h, schema)), 1)

\* for (const key in schema) schema[key] = await process...(schema[key]);
\* assigning to an index of a string throws in strict code.
processFirstOfKeys(h, schema, keyword, keys, i) ==
    IF i > Len(keys) THEN Ret(h, schema)
    ELSE IF IsStr(Cell(h, schema)) THEN Throw(h, TypeError)
    ELSE processFirstOfKey(processFirstOf(h, Child(h, schema, keys[i]), keyword),
                           schema, keyword, keys, i)

\* schema[key] = <the value r the recursive call returned>, then the next key
processFirstOfKey(r, schema, keyword, keys, i) ==
    IF r.err # NoError THEN r
    ELSE processFirstOfKeys(SetChild(r.h, schema, keys[i], r.id),
                            schema, keyword, keys, i + 1)

processOneOf(h, schema) == processFirstOf(h, schema, "oneOf")

processAnyOf(h, schema) == processFirstOf(h, schema, "anyOf")

\* await processOneOf(processedDoc); return processedDoc
OneOfClone(processedDoc) ==
    ReturnDoc(processOneOf(processedDoc.h, processedDoc.id), processedDoc.id)

selectFirstOfOneOf(h, apiDoc) == OneOfClone(JsonClone(h, apiDoc))

\* await processAnyOf(processedDoc); return processedDoc
AnyOfClone(processedDoc) ==
    ReturnDoc(processAnyOf(processedDoc.h, processedDoc.id), processedDoc.id)

selectFirstOfAnyOf(h, apiDoc) == AnyOfClone(JsonClone(h, apiDoc))

(***************************************************************************)
(* Documents and arguments the calls are made with.                        *)
(***************************************************************************)
Str(x) == [str |-> <<x>>]

Obj(f) == [map |-> f]

Arr(s) == [arr |-> s]

\* {"$ref": "<pointer>"}
RefTo(pointer) == Obj("$ref" :> [str |-> pointer])

PtrA == <<"#", "/", "A">>
PtrB == <<"#", "/", "B">>
PtrC == <<"#", "/", "C">>
PtrMissing == <<"#", "/", "M">>
PtrCxt == <<"#", "/", "C", "/", "x", "/", "t">>

AValues ==
    {Str("s"), RefTo(PtrB), RefTo(PtrC), RefTo(PtrMissing),
     Obj([x |-> RefTo(PtrB)])}

BValues ==
    {Str("s"), Obj([t |-> Str("s")]), RefTo(PtrC), RefTo(PtrMissing),
     RefTo(PtrA)}

CValues ==
    {Str("s"), Obj([t |-> Str("s")]), Obj([x |-> RefTo(PtrB)]),
     Obj([x |-> RefTo(PtrB), y |-> RefTo(PtrCxt)]), RefTo(PtrA), RefTo(PtrB)}

\* Documents with references: three top-level entries, and documents whose
\* root is itself a reference node.
RefDocs ==
    {Obj([A |-> a, B |-> b, C |-> c]) : a \in AValues, b \in BValues, c \in CValues}
    \cup {Obj(("$ref" :> [str |-> PtrB]) @@ [B |-> b]) : b \in BValues}

\* The values that are falsy: null, false, 0 and the empty string.
FalsyValues == {Null, [lit |-> "false"], [lit |-> "0"], [str |-> <<>>]}

\* Documents with a reference to an entry that holds a falsy value.
FalsyTargetDocs == {Obj([A |-> RefTo(PtrB), B |-> v]) : v \in FalsyValues}

Keywords == {"allOf", "oneOf", "anyOf"}

\* Schemas that stand in a composition sequence.
Members(kw) ==
    {Obj([t |-> Str("s")]),
     Obj([t |-> Str("v"), properties |-> Obj([x |-> Str("s")])]),
     Obj([properties |-> Obj([x |-> Str("v"), y |-> Str("s")])]),
     Obj(kw :> Arr(<<Obj([u |-> Str("v")])>>)),
     Obj([x |-> Obj(kw :> Arr(<<Obj([t |-> Str("s")]), Obj([u |-> Str("s")])>>))])}

\* The sequences under a keyword: every pair of members under allOf, where
\* both take part; under oneOf and anyOf every member in front of one more
\* alternative; and the empty sequence.
Sequences(kw) ==
    {<<>>}
    \cup (IF kw = "allOf"
          THEN {<<m1, m2>> : m1 \in Members(kw), m2 \in Members(kw)}
          ELSE {<<m, Obj([u |-> Str("s")])>> : m \in Members(kw)})

\* A composition node, with and without a sibling key.
Compositions(kw) ==
    {Obj(kw :> Arr(s)) : s \in Sequences(kw)}
    \cup {Obj((kw :> Arr(s)) @@ [y |-> Str("s")]) : s \in Sequences(kw)}

\* Documents with composition keywords: at the root and one level down.
CompositionDocs ==
    UNION {Compositions(kw) \cup {Obj([A |-> n]) : n \in Compositions(kw)} :
           kw \in Keywords}

Docs == RefDocs \cup FalsyTargetDocs \cup CompositionDocs

\* startAt: "$", "$.A", "$.B", "$.C", "$.C.x" and "$.Z", which matches nothing
\* in any document.
Scopes ==
    {<<"$">>, <<"$", ".", "A">>, <<"$", ".", "B">>, <<"$", ".", "C">>,
     <<"$", ".", "C", ".", "x">>, <<"$", ".", "Z">>}

\* ignorePaths as callers pass it: nothing, or ["$.B"].
IgnoreSets == {{}, {<<"$", ".", "B">>}}

(***************************************************************************)
(* The state machine: a caller holds one document object and makes calls   *)
(* on it.  doc is the object's content now, pre its content when the last  *)
(* call was made, orig its content when it was built.                      *)
(***************************************************************************)
NoCall == [name |-> "none", startAt |-> <<>>, ignorePaths |-> {}]

Init ==
    /\ doc \in Docs
    /\ pre = doc
    /\ orig = doc
    /\ op = NoCall
    /\ result = [kind |-> "none", value |-> Undefined, err |-> NoError]

\* The caller's view after a call that ended with outcome o on a heap where
\* the document object is at address apiDoc.
Observe(o, apiDoc, call) ==
    /\ doc' = Materialize(o.h, apiDoc)
    /\ pre' = doc
    /\ result' = [kind |-> o.kind, value |-> Materialize(o.h, o.id), err |-> o.err]
    /\ op' = call
    /\ UNCHANGED orig

DereferenceApi(startAt, ignorePaths) ==
    LET apiDoc == Load(<<>>, doc) IN
    Observe(dereferenceApi(apiDoc.h, apiDoc.id, startAt), apiDoc.id,
            [name |-> "dereferenceApi", startAt |-> startAt,
             ignorePaths |-> ignorePaths])

FlattenAllOf ==
    LET apiDoc == Load(<<>>, doc) IN
    Observe(flattenAllOf(apiDoc.h, apiDoc.id), apiDoc.id,
            [NoCall EXCEPT !.name = "flattenAllOf"])

SelectFirstOfOneOf ==
    LET apiDoc == Load(<<>>, doc) IN
    Observe(selectFirstOfOneOf(apiDoc.h, apiDoc.id), apiDoc.id,
            [NoCall EXCEPT !.name = "selectFirstOfOneOf"])

SelectFirstOfAnyOf ==
    LET apiDoc == Load(<<>>, doc) IN
    Observe(selectFirstOfAnyOf(apiDoc.h, apiDoc.id), apiDoc.id,
            [NoCall EXCEPT !.name = "selectFirstOfAnyOf"])

Next ==
    \/ \E s \in Scopes, i \in IgnoreSets : DereferenceApi(s, i)
    \/ FlattenAllOf
    \/ SelectFirstOfOneOf
    \/ SelectFirstOfAnyOf

Spec == Init /\ [][Next]_vars

(***************************************************************************)
(* Trees: what the properties below say about documents.                   *)
(***************************************************************************)
\* Some node of t has the key.
RECURSIVE ContainsKey(_, _)
ContainsKey(t, key) ==
    \/ /\ IsMap(t)
       /\ \/ key \in DOMAIN t.map
          \/ \E k \in DOMAIN t.map : ContainsKey(t.map[k], key)
    \/ /\ IsArr(t)
       /\ \E i \in 1..Len(t.arr) : ContainsKey(t.arr[i], key)

\* The member names of a path expression.
Names(expr) == SelectSeq(expr, LAMBDA x : x \notin {"$", "."})

\* t has a node at the path of member names, and that node.
RECURSIVE TreeHas(_, _)
TreeHas(t, names) ==
    \/ names = <<>>
    \/ /\ IsMap(t)
       /\ Head(names) \in DOMAIN t.map
       /\ TreeHas(t.map[Head(names)], Tail(names))

RECURSIVE TreeAt(_, _)
TreeAt(t, names) ==
    IF names = <<>> THEN t ELSE TreeAt(t.map[Head(names)], Tail(names))

\* The paths of all nodes of t that are reached through objects.
RECURSIVE Places(_)
Places(t) ==
    {<<>>} \cup
    (IF IsMap(t)
     THEN UNION {{<<k>> \o p : p \in Places(t.map[k])} : k \in DOMAIN t.map}
     ELSE {})

IsPrefix(p, q) == Len(p) <= Len(q) /\ SubSeq(q, 1, Len(p)) = p

IsRefNode(n) == IsMap(n) /\ "$ref" \in DOMAIN n.map

\* The reference nodes of t at or below the path names.
RefPlaces(t, names) ==
    {p \in Places(t) : IsPrefix(names, p) /\ IsRefNode(TreeAt(t, p))}

\* t with the subtree at names cut out.
RECURSIVE Outside(_, _)
Outside(t, names) ==
    IF names = <<>> THEN [lit |-> "scope"]
    ELSE [map |-> [k \in DOMAIN t.map |->
                     IF k = Head(names) THEN Outside(t.map[k], Tail(names))
                     ELSE t.map[k]]]

IsDereference == op.name = "dereferenceApi"

ScopeNames == Names(op.startAt)

(***************************************************************************)
(* C1..C10                                                                 *)
(***************************************************************************)
\* C1: after dereferenceApi(D, S) returns a document, no node from the scope
\* root down (the scope root included) has a `$ref` key.
C1_NoRefInScope ==
    (IsDereference /\ result.kind = "returned" /\ op.ignorePaths = {})
        => ~ContainsKey(TreeAt(result.value, ScopeNames), "$ref")

\* C2: no public operation changes the document passed to it, however the
\* call ends.
C2_InputNotMutated == op.name # "none" => doc = pre

\* The ignore paths of the last call that match a node of the input.
Ignored == {q \in {Names(e) : e \in op.ignorePaths} : TreeHas(pre, q)}

UnderIgnored(p) == \E q \in Ignored : IsPrefix(q, p)

\* C3: with ignore paths, every ignored subtree comes back exactly as in the
\* input; references inside it cannot make the call fail; and no in-scope
\* node outside it keeps a `$ref`.  (A scope root that is itself a reference
\* node is the case of C1 and is left aside.)
C3_IgnoreRespected ==
    (/\ IsDereference
     /\ op.ignorePaths # {}
     /\ TreeHas(pre, ScopeNames)
     /\ ~IsRefNode(TreeAt(pre, ScopeNames)))
        => /\ (\A p \in RefPlaces(pre, ScopeNames) : UnderIgnored(p))
                  => result.kind = "returned"
           /\ result.kind = "returned"
                  => /\ \A q \in Ignored :
                            /\ TreeHas(result.value, q)
                            /\ TreeAt(result.value, q) = TreeAt(pre, q)
                     /\ \A p \in RefPlaces(result.value, ScopeNames) :
                            UnderIgnored(p)

\* C4: what lies outside the scope subtree in the returned document is
\* deep-equal to the same part of the document passed in.
C4_OutsideScopeUntouched ==
    (IsDereference /\ result.kind = "returned")
        => /\ TreeHas(result.value, ScopeNames)
           /\ Outside(result.value, ScopeNames) = Outside(pre, ScopeNames)

\* A call scoped to $.A changed A, and left references outside A in place.
C4_Witness ==
    /\ IsDereference
    /\ op.startAt = <<"$", ".", "A">>
    /\ result.kind = "returned"
    /\ TreeAt(result.value, <<"A">>) # TreeAt(pre, <<"A">>)
    /\ ContainsKey(Outside(result.value, <<"A">>), "$ref")

\* The pointers of the `$ref` nodes of t at or below names.
RefsIn(t, names) == {TreeAt(t, p).map["$ref"].str : p \in RefPlaces(t, names)}

\* The pointer names a path with a segment the document does not have.
Dangling(t, pointer) == ~TreeHas(t, RefPath(pointer))

\* C5: when an in-scope `$ref` names a path the document does not have, the
\* call raises an error carrying that pointer and yields no document.
\* (Documents whose references run in a cycle end in a RangeError and are
\* left aside.)
C5_MissingPointerRaises ==
    (/\ IsDereference
     /\ TreeHas(pre, ScopeNames)
     /\ \E r \in RefsIn(pre, ScopeNames) : Dangling(pre, r)
     /\ result.err.kind # "RangeError")
        => /\ result.kind = "thrown"
           /\ result.value = Undefined
           /\ \E r \in RefsIn(pre, <<>>) :
                  Dangling(pre, r) /\ result.err = ResolveError(r)

Unresolvable == [lit |-> "unresolvable"]

\* The content a node stands for in document t: a reference node stands for
\* the content at its pointer, chains followed; an object for its entries'
\* contents.
RECURSIVE Resolved(_, _, _)
Resolved(t, node, fuel) ==
    IF fuel = 0 THEN Unresolvable
    ELSE IF IsRefNode(node)
    THEN IF IsStr(node.map["$ref"]) /\ ~Dangling(t, node.map["$ref"].str)
         THEN Resolved(t, TreeAt(t, RefPath(node.map["$ref"].str)), fuel - 1)
         ELSE Unresolvable
    ELSE IF IsMap(node)
    THEN [map |-> [k \in DOMAIN node.map |-> Resolved(t, node.map[k], fuel - 1)]]
    ELSE IF IsArr(node)
    THEN [arr |-> [i \in 1..Len(node.arr) |-> Resolved(t, node.arr[i], fuel - 1)]]
    ELSE node

\* C6: every in-scope reference node comes back as the content at its pointer
\* in the document, chains of references followed to the end.
C6_RefsReplacedByContent ==
    (IsDereference /\ result.kind = "returned")
        => \A p \in RefPlaces(pre, ScopeNames) :
               /\ TreeHas(result.value, p)
               /\ TreeAt(result.value, p) = Resolved(pre, TreeAt(pre, p), MaxStack)

\* What dereferenceApi(t, startAt) gives when it is the first call on a
\* document object that holds t.
FirstCall(t, startAt) ==
    LET o == dereferenceApi(Load(<<>>, t).h, Load(<<>>, t).id, startAt)
    IN  [kind |-> o.kind, value |-> Materialize(o.h, o.id), err |-> o.err]

\* C7: a call dereferenceApi(D, S) gives what it would give as the first call
\* ever made on D, whatever calls were made on D before.
C7_IndependentOfEarlierCalls ==
    IsDereference => result = FirstCall(orig, op.startAt)

\* C8: the result of flattenAllOf has no `allOf` key at any node, the root
\* included.
C8_NoAllOfLeft ==
    (op.name = "flattenAllOf" /\ result.kind = "returned")
        => ~ContainsKey(result.value, "allOf")

IsAllOfNode(n) == IsMap(n) /\ "allOf" \in DOMAIN n.map /\ IsArr(n.map.allOf)

\* The keys the members define, and the names their `properties` define.
MemberKeys(ms) == UNION {DOMAIN ms[i].map : i \in 1..Len(ms)}

Props(m) ==
    IF "properties" \in DOMAIN m.map /\ IsMap(m.map.properties)
    THEN m.map.properties.map ELSE <<>>

MemberProps(ms) == UNION {DOMAIN Props(ms[i]) : i \in 1..Len(ms)}

\* The last member that defines key k, and that defines property n.
LastWith(ms, k) ==
    CHOOSE i \in 1..Len(ms) :
        /\ k \in DOMAIN ms[i].map
        /\ \A j \in (i + 1)..Len(ms) : k \notin DOMAIN ms[j].map

LastWithProp(ms, n) ==
    CHOOSE i \in 1..Len(ms) :
        /\ n \in DOMAIN Props(ms[i])
        /\ \A j \in (i + 1)..Len(ms) : n \notin DOMAIN Props(ms[j])

\* A document with every allOf node flattened, as the rule reads: last member
\* wins key by key, `properties` is the union of the members' properties.
RECURSIVE Flat(_)
Flat(t) ==
    IF IsAllOfNode(t)
    THEN LET ms == t.map.allOf.arr
             keys == (MemberKeys(ms) \ {"allOf"})
                     \cup (IF ms = <<>> THEN {} ELSE {"properties"})
         IN  [map |-> [k \in keys |->
                 IF k = "properties"
                 THEN [map |-> [n \in MemberProps(ms) |->
                                  Flat(Props(ms[LastWithProp(ms, n)])[n])]]
                 ELSE Flat(ms[LastWith(ms, k)].map[k])]]
    ELSE IF IsMap(t) THEN [map |-> [k \in DOMAIN t.map |-> Flat(t.map[k])]]
    ELSE IF IsArr(t) THEN [arr |-> [i \in 1..Len(t.arr) |-> Flat(t.arr[i])]]
    ELSE t

\* Node n is the merge of the members ms: every key but `properties` holds
\* the (flattened) value of the last member that defines it, and `properties`
\* is the union of the members' properties, a later entry over an earlier.
MergeOf(n, ms) ==
    /\ IsMap(n)
    /\ DOMAIN n.map \ {"properties"} = MemberKeys(ms) \ {"properties", "allOf"}
    /\ \A k \in DOMAIN n.map \ {"properties"} :
           n.map[k] = Flat(ms[LastWith(ms, k)].map[k])
    /\ MemberProps(ms) # {} => "properties" \in DOMAIN n.map
    /\ "properties" \in DOMAIN n.map
           => /\ IsMap(n.map.properties)
              /\ DOMAIN n.map.properties.map = MemberProps(ms)
              /\ \A x \in MemberProps(ms) :
                     n.map.properties.map[x]
                         = Flat(Props(ms[LastWithProp(ms, x)])[x])

\* The places of the documents where a composition node stands.
NodePlaces == {<<>>, <<"A">>}

\* C9: where the input has a node with allOf [m1..mn], n >= 1, the result of
\* flattenAllOf has the merge of the members in its place.
C9_AllOfMerged ==
    (op.name = "flattenAllOf" /\ result.kind = "returned")
        => \A p \in NodePlaces :
               (/\ TreeHas(pre, p)
                /\ IsAllOfNode(TreeAt(pre, p))
                /\ TreeAt(pre, p).map.allOf.arr # <<>>)
                   => /\ TreeHas(result.value, p)
                      /\ MergeOf(TreeAt(result.value, p),
                                 TreeAt(pre, p).map.allOf.arr)

\* Some node of t has an empty sequence under the keyword.
RECURSIVE HasEmpty(_, _)
HasEmpty(t, kw) ==
    \/ /\ IsMap(t)
       /\ \/ kw \in DOMAIN t.map /\ t.map[kw] = Arr(<<>>)
          \/ \E k \in DOMAIN t.map : HasEmpty(t.map[k], kw)
    \/ /\ IsArr(t)
       /\ \E i \in 1..Len(t.arr) : HasEmpty(t.arr[i], kw)

\* C10: with no empty oneOf/anyOf sequence in the document, the result of
\* selectFirstOfOneOf has no `oneOf` key at any node and the result of
\* selectFirstOfAnyOf no `anyOf` key, the root and the chosen alternatives
\* included.
C10_NoOneOfAnyOfLeft ==
    /\ (op.name = "selectFirstOfOneOf" /\ ~HasEmpty(pre, "oneOf"))
           => result.kind = "returned" /\ ~ContainsKey(result.value, "oneOf")
    /\ (op.name = "selectFirstOfAnyOf" /\ ~HasEmpty(pre, "anyOf"))
           => result.kind = "returned" /\ ~ContainsKey(result.value, "anyOf")

(***************************************************************************)
(* C11..C15                                                                *)
(***************************************************************************)
\* A node that carries a non-empty sequence under the keyword.
IsChoiceNode(n, kw) ==
    IsMap(n) /\ kw \in DOMAIN n.map /\ IsArr(n.map[kw]) /\ n.map[kw].arr # <<>>

\* A tree with every choice node in it replaced by element 0 of its sequence,
\* and that element with the choice nodes below it replaced likewise.
RECURSIVE FirstChosen(_, _)
RECURSIVE ChosenBelow(_, _)
FirstChosen(t, kw) ==
    IF IsChoiceNode(t, kw) THEN ChosenBelow(t.map[kw].arr[1], kw)
    ELSE ChosenBelow(t, kw)

ChosenBelow(t, kw) ==
    IF IsMap(t) THEN [map |-> [k \in DOMAIN t.map |-> FirstChosen(t.map[k], kw)]]
    ELSE IF IsArr(t)
    THEN [arr |-> [i \in 1..Len(t.arr) |-> FirstChosen(t.arr[i], kw)]]
    ELSE t

\* The place p of the input holds a choice node, and the result holds
\* element 0 of its sequence there, nothing of the node's other keys or of
\* the other alternatives.
ElementZeroAt(p, kw) ==
    (TreeHas(pre, p) /\ IsChoiceNode(TreeAt(pre, p), kw))
        => /\ result.kind = "returned"
           /\ TreeHas(result.value, p)
           /\ TreeAt(result.value, p)
                  = ChosenBelow(TreeAt(pre, p).map[kw].arr[1], kw)

\* C11: wherever the input has a node with a non-empty oneOf (anyOf)
\* sequence, the result of selectFirstOfOneOf (selectFirstOfAnyOf) holds
\* element 0 of that sequence in the node's place, sibling keys and other
\* alternatives gone.
C11_ReplacedByElementZero ==
    /\ op.name = "selectFirstOfOneOf"
           => \A p \in NodePlaces : ElementZeroAt(p, "oneOf")
    /\ op.name = "selectFirstOfAnyOf"
           => \A p \in NodePlaces : ElementZeroAt(p, "anyOf")

\* C12: dereferenceApi is idempotent: when dereferenceApi(D, S) returns a
\* document R, dereferenceApi(R, S) returns a document deep-equal to R.
C12_Idempotent ==
    (IsDereference /\ result.kind = "returned")
        => /\ FirstCall(result.value, op.startAt).kind = "returned"
           /\ FirstCall(result.value, op.startAt).value = result.value

\* A call resolved a chain of references in its scope, and the call on what
\* it returned gave the same document again.
C12_Witness ==
    /\ IsDereference
    /\ result.kind = "returned"
    /\ TreeHas(pre, <<"A">>) /\ TreeHas(pre, <<"B">>)
    /\ TreeAt(pre, <<"A">>) = Obj([x |-> RefTo(PtrB)])
    /\ TreeAt(pre, <<"B">>) = RefTo(PtrC)
    /\ ScopeNames = <<>>
    /\ ~ContainsKey(result.value, "$ref")
    /\ FirstCall(result.value, op.startAt).value = result.value

\* The members of a sequence that carry an allOf sequence of their own.
NestedMembers(ms) == {i \in 1..Len(ms) : IsAllOfNode(ms[i])}

\* Node n has what the members ns contribute: each of their keys, and each
\* name of their `properties`.
HasContributions(n, ns) ==
    /\ IsMap(n)
    /\ (MemberKeys(ns) \ {"properties", "allOf"}) \subseteq DOMAIN n.map
    /\ MemberProps(ns) # {}
           => /\ "properties" \in DOMAIN n.map
              /\ IsMap(n.map.properties)
              /\ MemberProps(ns) \subseteq DOMAIN n.map.properties.map

\* C13: where a member of an allOf sequence itself carries an allOf
\* sequence, the flattened node has the keys and the `properties` names the
\* nested members contribute.  (An allOf node at the root is the case of C8
\* and is left aside.)
C13_NestedAllOfFlattened ==
    (op.name = "flattenAllOf" /\ result.kind = "returned")
        => \A p \in NodePlaces \ {<<>>} :
               (TreeHas(pre, p) /\ IsAllOfNode(TreeAt(pre, p)))
                   => \A i \in NestedMembers(TreeAt(pre, p).map.allOf.arr) :
                          /\ TreeHas(result.value, p)
                          /\ HasContributions(
                                 TreeAt(result.value, p),
                                 TreeAt(pre, p).map.allOf.arr[i].map.allOf.arr)

\* The path a reference node at place p of t points to.
TargetOf(t, p) == RefPath(TreeAt(t, p).map["$ref"].str)

\* Resolving the reference at p leads to the reference at q: q stands at or
\* below the place p points to.
LeadsTo(t, p, q) ==
    /\ TreeHas(t, TargetOf(t, p))
    /\ q \in RefPlaces(t, <<>>)
    /\ IsPrefix(TargetOf(t, p), q)

\* The reference places reached from those of S, S included.
RECURSIVE ReachedFrom(_, _)
ReachedFrom(t, S) ==
    LET more == {q \in RefPlaces(t, <<>>) : \E p \in S : LeadsTo(t, p, q)}
    IN  IF more \subseteq S THEN S ELSE ReachedFrom(t, S \cup more)

\* The references of t run in a cycle.
Cyclic(t) ==
    \E p \in RefPlaces(t, <<>>) :
        p \in ReachedFrom(t, {q \in RefPlaces(t, <<>>) : LeadsTo(t, p, q)})

\* C14: when every `$ref` pointer of the document names a path the document
\* has (and the references run in no cycle), dereferenceApi returns a
\* document, whatever value stands at the end of a pointer: null, false, 0
\* and the empty string included.
C14_ExistingPointerResolves ==
    (/\ IsDereference
     /\ TreeHas(pre, ScopeNames)
     /\ ~Cyclic(pre)
     /\ \A r \in RefsIn(pre, <<>>) : ~Dangling(pre, r))
        => result.kind = "returned"

\* C15: on a document whose references run in no cycle a call of
\* dereferenceApi ends (with a document, with undefined or with an error
\* raised by the code) without exhausting the call stack, however often a
\* target is referenced and however references chain.
C15_AcyclicTerminates ==
    (IsDereference /\ ~Cyclic(pre))
        => /\ result.kind \in {"returned", "undefined", "thrown"}
           /\ result.err.kind # "RangeError"

\* A call over a whole document where B is the target of A directly and of
\* C through A ended with every reference resolved.
C15_Witness ==
    /\ IsDereference
    /\ ScopeNames = <<>>
    /\ pre = Obj([A |-> RefTo(PtrB), B |-> Obj([t |-> Str("s")]),
                  C |-> RefTo(PtrA)])
    /\ ~Cyclic(pre)
    /\ result.kind = "returned"
    /\ result.value = Obj([A |-> Obj([t |-> Str("s")]),
                           B |-> Obj([t |-> Str("s")]),
                           C |-> Obj([t |-> Str("s")])])

====
